---- MODULE Spec2Model ----
(***************************************************************************)
(* HTMLParser.parse of ai_politic_analyser/modules/html_parser/parser.py   *)
(* as a state machine: the blank-input check, the removal pre-pass         *)
(* (_remove_technical_elements), the root selection                        *)
(* (_extract_structured_content), the recursive traversal                  *)
(* (_extract_content_recursive, one stack frame per active call) with the  *)
(* block formatters and the table classifier, and the final join.          *)
(*                                                                         *)
(* Strings are TLA+ strings (Len, SubSeq and \o act on them).  The DOM     *)
(* that BeautifulSoup(html_content, 'lxml') builds is a sequence of nodes  *)
(* in document (pre-order) order; a node's identity is its index.          *)
(* The bullet glyph of _process_list is written "*" (ASCII only).          *)
(* Spec is one call of parse; SpecCalls is a sequence of calls on one      *)
(* HTMLParser, whose attributes are the variable self.                     *)
(***************************************************************************)
EXTENDS Integers, Sequences, FiniteSets, TLC

VARIABLES
    pc,                 \* position inside parse
    html_content,       \* the argument of parse
    soup,               \* the DOM: <<>> until BeautifulSoup has built it
    detached,           \* nodes decomposed / extracted from the tree
    by_tag,             \* history: elements the tag loop decomposed
    by_class,           \* history: elements the class loop decomposed
    main_content,       \* the traversal root (0 until selected)
    content_parts,      \* the list of Output Blocks
    origin,             \* history, parallel to content_parts: the element a
                        \* block was appended for and the text nodes it used
    processed_elements, \* the set of id(element) already visited
    visits,             \* history: the elements marked processed, in order
    stack,              \* the active calls of _extract_content_recursive
    result,             \* what parse returned or raised
    self,               \* the attributes of the HTMLParser object
    calls,              \* history: the number of the call of parse under way
    log                 \* history: the input and the outcome of every earlier call

vars == <<pc, html_content, soup, detached, by_tag, by_class, main_content,
          content_parts, origin, processed_elements, visits, stack, result,
          self, calls, log>>

----------------------------------------------------------------------------
(* Bounds of the explored inputs *)

MaxKids == 2
MaxRows == 2
MaxItems == 3
MaxCalls == 2

----------------------------------------------------------------------------
(* Python string operations *)

Char(s, i) == SubSeq(s, i, i)

MinOf(S) == CHOOSE m \in S : \A k \in S : m <= k

MaxOf(S) == CHOOSE m \in S : \A k \in S : m >= k

Whitespace == {" ", "\n", "\t"}

\* str.strip()
strip(s) ==
    LET keep == {i \in 1..Len(s) : Char(s, i) \notin Whitespace}
    IN  IF keep = {} THEN "" ELSE SubSeq(s, MinOf(keep), MaxOf(keep))

\* the operator `sub in s` on two strings
contains(sub, s) ==
    \E i \in 1..(Len(s) - Len(sub) + 1) : SubSeq(s, i, i + Len(sub) - 1) = sub

\* the operator `x in xs` on a list
member(x, xs) == \E i \in 1..Len(xs) : xs[i] = x

UpperCase == "ABCDEFGHIJKLMNOPQRSTUVWXYZ"

LowerCase == "abcdefghijklmnopqrstuvwxyz"

lower_char(c) ==
    IF \E i \in 1..26 : Char(UpperCase, i) = c
    THEN Char(LowerCase, CHOOSE i \in 1..26 : Char(UpperCase, i) = c)
    ELSE c

RECURSIVE lower(_)
\* str.lower()
lower(s) == IF s = "" THEN "" ELSE lower_char(Char(s, 1)) \o lower(SubSeq(s, 2, Len(s)))

RECURSIVE join(_, _)
\* sep.join(parts)
join(sep, parts) ==
    IF parts = <<>> THEN ""
    ELSE IF Len(parts) = 1 THEN parts[1]
    ELSE parts[1] \o sep \o join(sep, Tail(parts))

Digits == "0123456789"

IsDigit(c) == \E i \in 1..10 : Char(Digits, i) = c

RECURSIVE str_int(_)
\* str(i) of a non-negative integer, as an f-string formats it
str_int(i) ==
    IF i < 10 THEN Char(Digits, i + 1)
    ELSE str_int(i \div 10) \o Char(Digits, (i % 10) + 1)

\* the members of a set of node indices in document order
SortedSeq(S) ==
    IF S = {} THEN <<>>
    ELSE LET lo == MinOf(S)
         IN  SelectSeq([i \in 1..(MaxOf(S) - lo + 1) |-> lo + i - 1], LAMBDA n : n \in S)

RECURSIVE Flatten(_)
\* the concatenation of a sequence of sequences
Flatten(ss) == IF ss = <<>> THEN <<>> ELSE Head(ss) \o Flatten(Tail(ss))

----------------------------------------------------------------------------
(* _setup_removal_rules *)

\* the attributes _setup_removal_rules assigns when the parser is constructed
_setup_removal_rules ==
    [remove_elements |->
        {"script", "style", "noscript", "meta", "link", "title",
         "head", "nav", "footer", "aside", "form", "input",
         "button", "select", "textarea", "iframe", "object", "embed"},
     technical_classes |->
        {"nav", "navigation", "menu", "sidebar", "footer", "header",
         "advertisement", "ad"},
     content_table_indicators |->
        {"data", "results", "statistics", "stats", "comparison",
         "schedule", "timeline", "budget", "financial", "economic"},
     technical_table_indicators |->
        {"nav", "menu", "layout", "grid", "controls", "buttons"}]

\* self.remove_elements
remove_elements == self.remove_elements

\* self.technical_classes
technical_classes == self.technical_classes

\* self.content_table_indicators
content_table_indicators == self.content_table_indicators

\* self.technical_table_indicators
technical_table_indicators == self.technical_table_indicators

\* the literal list of _classify_table's last test
navigation_indicators == {"home", "about", "contact", "menu", "navigation"}

\* the literal list of _extract_content_recursive's child test
block_child_tags ==
    {"div", "p", "section", "article", "h1", "h2", "h3", "h4", "h5", "h6",
     "ul", "ol", "table", "blockquote"}

\* the set block_elements of _process_generic_block, which no call reaches
block_elements ==
    {"div", "section", "article", "main", "header", "aside", "span",
     "figure", "figcaption", "details", "summary"}

heading_tags == {"h1", "h2", "h3", "h4", "h5", "h6"}

list_tags == {"ul", "ol"}

\* the minimum length of an unlabeled block
MinTextLen == 10

\* the numbers_count threshold of _classify_table
NumbersThreshold == 5

\* exceptions.py: the classes an exception class is an instance of
ExceptionBases(cls) ==
    CASE cls = "HTMLParsingError"  -> {"HTMLParsingError", "Exception"}
      [] cls = "InvalidHTMLError"  -> {"InvalidHTMLError", "HTMLParsingError", "Exception"}
      [] cls = "EmptyContentError" -> {"EmptyContentError", "HTMLParsingError", "Exception"}
      [] OTHER -> {"Exception"}

----------------------------------------------------------------------------
(* The DOM: bs4's Tag, NavigableString and Comment *)

\* A fragment is a sequence of nodes in document order; depth 0 is its top.
Node(kind, name, class, text, title) ==
    [depth |-> 0, kind |-> kind, name |-> name, class |-> class,
     text |-> text, title |-> title]

Shift(frag) == [i \in 1..Len(frag) |-> [frag[i] EXCEPT !.depth = @ + 1]]

Tag(name, class, kids) == <<Node("tag", name, class, "", "")>> \o Shift(kids)

TagT(name, class, title, kids) == <<Node("tag", name, class, "", title)>> \o Shift(kids)

Text(s) == <<Node("text", "", <<>>, s, "")>>

Comment(s) == <<Node("comment", "", <<>>, s, "")>>

\* the tree lxml builds around the content of a body
Page(kids) == Tag("[document]", <<>>, Tag("html", <<>>, Tag("body", <<>>, kids)))

\* BeautifulSoup(html_content, 'lxml'): every node with its parent and the
\* last node of its subtree
Build(frag) ==
    [i \in 1..Len(frag) |->
        [parent |-> IF frag[i].depth = 0 THEN 0
                    ELSE MaxOf({j \in 1..(i - 1) : frag[j].depth = frag[i].depth - 1}),
         last   |-> MaxOf({j \in i..Len(frag) :
                            \A k \in (i + 1)..j : frag[k].depth > frag[i].depth}),
         kind   |-> frag[i].kind,
         name   |-> frag[i].name,
         class  |-> frag[i].class,
         text   |-> frag[i].text,
         title  |-> frag[i].title]]

NodeIds == 1..Len(soup)

IsTag(n) == soup[n].kind = "tag"

\* n lies in the subtree below e
Below(e, n) == e < n /\ n <= soup[e].last

\* n is still part of the tree it was parsed into
Attached(n) == \A d \in detached : ~(d = n \/ Below(d, n))

\* the nodes of e's subtree that were not detached from it, e excluded
descendants(e) ==
    {n \in (e + 1)..soup[e].last :
        \A d \in detached : ~(Below(e, d) /\ (d = n \/ Below(d, n)))}

RECURSIVE Reverse(_)
Reverse(seq) == IF seq = <<>> THEN <<>> ELSE Append(Reverse(Tail(seq)), Head(seq))

\* the children, last first
children_reversed(e) == Reverse(SortedSeq({n \in descendants(e) : soup[n].parent = e}))

\* element.children, in order
children(e) == SortedSeq({n \in descendants(e) : soup[n].parent = e})

\* the NavigableStrings get_text collects (Comments are not among its types)
text_nodes(e) == SortedSeq({n \in descendants(e) : soup[n].kind = "text"})

\* the strings _all_strings(strip=True) yields: stripped, empty ones skipped
stripped_nodes(e) ==
    SelectSeq(text_nodes(e), LAMBDA n : strip(soup[n].text) # "")

\* element.get_text(strip=True)
get_text_strip(e) ==
    LET strings == stripped_nodes(e)
    IN  join("", [i \in 1..Len(strings) |-> strip(soup[strings[i]].text)])

\* element.get_text()
get_text(e) ==
    LET strings == text_nodes(e)
    IN  join("", [i \in 1..Len(strings) |-> soup[strings[i]].text])

\* element.find_all(name): the Tags below e with one of the names, in order
find_all(e, names) ==
    SortedSeq({n \in descendants(e) : IsTag(n) /\ soup[n].name \in names})

\* a search for direct children that looks below them too
find_all_direct_recursive(e, names) ==
    SortedSeq({n \in descendants(e) : IsTag(n) /\ soup[n].name \in names})

\* element.find_all(name, recursive=False)
find_all_direct(e, names) ==
    SortedSeq({n \in descendants(e) :
                IsTag(n) /\ soup[n].name \in names /\ soup[n].parent = e})

\* element.find(name): the first match or 0 (None)
find(e, name) ==
    LET m == find_all(e, {name}) IN IF m = <<>> THEN 0 ELSE m[1]

\* element.find_parent(name): the closest ancestor of that name or 0
RECURSIVE find_parent(_, _)
find_parent(e, name) ==
    LET p == soup[e].parent
    IN  IF p = 0 \/ e \in detached THEN 0
        ELSE IF soup[p].name = name THEN p
        ELSE find_parent(p, name)

----------------------------------------------------------------------------
(* The Technical Filter *)

\* _is_technical_element
_is_technical_element(e) ==
    IF ~IsTag(e) THEN FALSE
    ELSE IF lower(soup[e].name) \in remove_elements THEN TRUE
    ELSE \E tech_class \in technical_classes : member(tech_class, soup[e].class)

\* the filter of the class loop, lambda x: x and class_name in x
class_lambda(class_name, x) == x # "" /\ contains(class_name, x)

\* bs4 hands a function given for a multi-valued attribute each value of the
\* attribute, then the values joined by a space; an absent attribute is None
matches_class(e, class_name) ==
    \/ \E i \in 1..Len(soup[e].class) : class_lambda(class_name, soup[e].class[i])
    \/ class_lambda(class_name, join(" ", soup[e].class))

\* soup.find_all(tag_name)
tag_matches(tag_name) ==
    {n \in descendants(1) : IsTag(n) /\ soup[n].name = tag_name}

\* soup.find_all(string=lambda text: isinstance(text, Comment))
comment_matches == {n \in descendants(1) : soup[n].kind = "comment"}

\* a class loop that finds nothing
class_matches_none(class_name) == {}

\* soup.find_all(class_=lambda x: x and class_name in x)
class_matches(class_name) ==
    {n \in descendants(1) : IsTag(n) /\ matches_class(n, class_name)}

----------------------------------------------------------------------------
(* The Table Classifier *)

\* the end of the run of digits that starts at i (i - 1 when there is none)
RECURSIVE digits_end(_, _)
digits_end(s, i) ==
    IF i <= Len(s) /\ IsDigit(Char(s, i)) THEN digits_end(s, i + 1) ELSE i - 1

\* the end of the match of \d+[.,]?\d*[%$]? that starts at the digit at i
number_end(s, i) ==
    LET a == digits_end(s, i)
        b == IF a + 1 <= Len(s) /\ Char(s, a + 1) \in {".", ","} THEN a + 1 ELSE a
        c == digits_end(s, b + 1)
    IN  IF c + 1 <= Len(s) /\ Char(s, c + 1) \in {"%", "$"} THEN c + 1 ELSE c

\* len(re.findall(number_pattern, s)), scanning from i
RECURSIVE count_numbers(_, _)
count_numbers(s, i) ==
    IF i > Len(s) THEN 0
    ELSE IF IsDigit(Char(s, i)) THEN 1 + count_numbers(s, number_end(s, i) + 1)
    ELSE count_numbers(s, i + 1)

\* a classifier that tests the technical class keywords first
_classify_table_technical_first(table) ==
    LET table_classes == lower(join(" ", soup[table].class))
        text_content  == lower(get_text(table))
        numbers_count == count_numbers(text_content, 1)
    IN  IF \E indicator \in technical_table_indicators : contains(indicator, table_classes)
        THEN "technical"
        ELSE IF \E indicator \in content_table_indicators : contains(indicator, table_classes)
        THEN "content"
        ELSE IF \/ numbers_count > NumbersThreshold
                \/ \E indicator \in content_table_indicators : contains(indicator, text_content)
        THEN "content"
        ELSE IF \E indicator \in navigation_indicators : contains(indicator, text_content)
        THEN "technical"
        ELSE "content"

\* _classify_table
_classify_table(table) ==
    LET table_classes == lower(join(" ", soup[table].class))
        text_content  == lower(get_text(table))
        numbers_count == count_numbers(text_content, 1)
    IN  IF \E indicator \in content_table_indicators : contains(indicator, table_classes)
        THEN "content"
        ELSE IF \E indicator \in technical_table_indicators : contains(indicator, table_classes)
        THEN "technical"
        ELSE IF \/ numbers_count > NumbersThreshold
                \/ \E indicator \in content_table_indicators : contains(indicator, text_content)
        THEN "content"
        ELSE IF \E indicator \in navigation_indicators : contains(indicator, text_content)
        THEN "technical"
        ELSE "content"

----------------------------------------------------------------------------
(* The Block Formatters.  Each returns a string; "" is falsy for the caller. *)
(* The *_strings operators give the text nodes whose content the returned   *)
(* string includes, one entry per inclusion.                                *)

\* _process_heading
_process_heading(element) ==
    "Section (Level " \o Char(soup[element].name, 2) \o "): " \o get_text_strip(element)

\* _process_paragraph
_process_paragraph(element) == get_text_strip(element)

\* _process_quote
_process_quote(element) == "Quote: " \o get_text_strip(element)

\* the indices i of enumerate(find_all('li', recursive=False), 1) whose item
\* text is not empty
list_kept(element) ==
    LET lis == find_all_direct(element, {"li"})
    IN  SelectSeq([i \in 1..Len(lis) |-> i], LAMBDA i : get_text_strip(lis[i]) # "")

\* _process_list
_process_list(element) ==
    LET list_type == IF soup[element].name = "ol" THEN "numbered" ELSE "bulleted"
        lis   == find_all_direct(element, {"li"})
        kept  == list_kept(element)
        items == [k \in 1..Len(kept) |->
                    IF list_type = "numbered"
                    THEN str_int(kept[k]) \o ". " \o get_text_strip(lis[kept[k]])
                    ELSE "* " \o get_text_strip(lis[kept[k]])]
    IN  IF items # <<>>
        THEN "List (" \o list_type \o "):\n" \o join("\n", items)
        ELSE ""

list_strings(element) ==
    LET lis  == find_all_direct(element, {"li"})
        kept == list_kept(element)
    IN  Flatten([k \in 1..Len(kept) |-> stripped_nodes(lis[kept[k]])])

\* the title of _process_table; the node's title is the value of
\* element.get('title', '') or element.get('data-title', '')
table_title(element) ==
    LET caption == find(element, "caption")
    IN  IF caption # 0 THEN get_text_strip(caption)
        ELSE IF soup[element].title # "" THEN soup[element].title
        ELSE "Data"

\* whether _process_table takes all_rows[0] as header_row
has_header_row(element) ==
    LET all_rows == find_all(element, {"tr"})
    IN  /\ all_rows # <<>>
        /\ \/ find_all(all_rows[1], {"th"}) # <<>>
           \/ find_parent(all_rows[1], "thead") # 0

\* data_rows of _process_table
table_data_rows(element) ==
    LET all_rows == find_all(element, {"tr"})
    IN  IF has_header_row(element) THEN Tail(all_rows) ELSE all_rows

\* the cells of header_row that have text
header_cells(element) ==
    IF has_header_row(element)
    THEN SelectSeq(find_all(find_all(element, {"tr"})[1], {"th", "td"}),
                   LAMBDA cell : get_text_strip(cell) # "")
    ELSE <<>>

\* column_names of _process_table
table_column_names(element) ==
    LET named     == header_cells(element)
        from_head == [i \in 1..Len(named) |-> get_text_strip(named[i])]
        data_rows == table_data_rows(element)
    IN  IF from_head = <<>> /\ data_rows # <<>>
        THEN [i \in 1..Len(find_all(data_rows[1], {"td", "th"})) |-> "Column" \o str_int(i)]
        ELSE from_head

\* a row line that leaves out the cells without text
table_row_line_skip_empty(row, column_names) ==
    LET cells == find_all(row, {"td", "th"})
        n     == IF Len(cells) < Len(column_names) THEN Len(cells) ELSE Len(column_names)
        shown == SelectSeq([i \in 1..n |-> i], LAMBDA i : get_text_strip(cells[i]) # "")
    IN  join(" | ", [k \in 1..Len(shown) |->
                        column_names[shown[k]] \o ": " \o get_text_strip(cells[shown[k]])])

\* the row_parts of one data row, joined
table_row_line(row, column_names) ==
    LET cells == find_all(row, {"td", "th"})
        n     == IF Len(cells) < Len(column_names) THEN Len(cells) ELSE Len(column_names)
    IN  join(" | ", [i \in 1..n |-> column_names[i] \o ": " \o get_text_strip(cells[i])])

\* the data rows that add a line to formatted_rows
table_kept_rows(element) ==
    LET column_names == table_column_names(element)
    IN  SelectSeq(table_data_rows(element),
                  LAMBDA row : /\ find_all(row, {"td", "th"}) # <<>>
                               /\ column_names # <<>>)

\* formatted_rows of _process_table
table_formatted_rows(element) ==
    LET column_names == table_column_names(element)
        rows         == table_kept_rows(element)
    IN  [k \in 1..Len(rows) |-> table_row_line(rows[k], column_names)]

\* _process_table
_process_table(element) ==
    LET formatted_rows == table_formatted_rows(element)
    IN  IF _classify_table(element) = "technical" THEN ""
        ELSE IF find_all(element, {"tr"}) = <<>> THEN ""
        ELSE IF table_column_names(element) = <<>> THEN ""
        ELSE IF formatted_rows # <<>>
        THEN "Table: " \o table_title(element) \o "\n" \o join("\n", formatted_rows)
        ELSE ""

table_strings(element) ==
    LET caption == find(element, "caption")
        named   == header_cells(element)
        ncols   == Len(table_column_names(element))
        rows    == table_kept_rows(element)
        used(row) == LET cells == find_all(row, {"td", "th"})
                         n == IF Len(cells) < ncols THEN Len(cells) ELSE ncols
                     IN  Flatten([i \in 1..n |->
                                    (IF i <= Len(named) THEN stripped_nodes(named[i]) ELSE <<>>)
                                    \o stripped_nodes(cells[i])])
    IN  IF _process_table(element) = "" THEN <<>>
        ELSE (IF caption # 0 THEN stripped_nodes(caption) ELSE <<>>)
             \o Flatten([k \in 1..Len(rows) |-> used(rows[k])])

\* the formatter _extract_content_recursive calls for a structural tag
format_block(element) ==
    LET tag_name == lower(soup[element].name)
    IN  CASE tag_name \in heading_tags -> _process_heading(element)
          [] tag_name \in list_tags    -> _process_list(element)
          [] tag_name = "table"        -> _process_table(element)
          [] tag_name = "blockquote"   -> _process_quote(element)
          [] tag_name = "p"            -> _process_paragraph(element)

format_strings(element) ==
    LET tag_name == lower(soup[element].name)
    IN  CASE tag_name \in list_tags -> list_strings(element)
          [] tag_name = "table"     -> table_strings(element)
          [] OTHER                  -> stripped_nodes(element)

structural_tags == heading_tags \cup list_tags \cup {"table", "blockquote", "p"}

----------------------------------------------------------------------------
(* parse *)

Top == stack[Len(stack)]

Pop == SubSeq(stack, 1, Len(stack) - 1)

Frame(element) ==
    [element |-> element, phase |-> "call", i |-> 1, direct_text |-> "",
     direct_nodes |-> <<>>, has_block_children |-> FALSE]

Returned(value) == [outcome |-> "returned", value |-> value, cause |-> "none"]

Raised(cls, cause) == [outcome |-> "raised", value |-> cls, cause |-> cause]

\* what the except clause of parse makes of an exception raised in the try
\* block: every Exception is re-raised as HTMLParsingError from it
except_clause(cls) ==
    IF "Exception" \in ExceptionBases(cls)
    THEN Raised("HTMLParsingError", cls)
    ELSE Raised(cls, "none")

\* parse, the first test: not html_content or not html_content.strip()
is_blank(markup) == markup = "" \/ strip(markup) = ""

\* parse raises EmptyContentError("HTML content is empty") outside the try
ParseRaiseEmptyInput ==
    /\ pc = "start"
    /\ is_blank(html_content.markup)
    /\ result' = Raised("EmptyContentError", "none")
    /\ pc' = "done"
    /\ UNCHANGED <<html_content, soup, detached, by_tag, by_class, main_content,
                   content_parts, origin, processed_elements, visits, stack>>
    /\ UNCHANGED <<self, calls, log>>

\* soup = BeautifulSoup(html_content, 'lxml'): a new tree, nothing detached
BuildSoup ==
    /\ pc = "start"
    /\ ~is_blank(html_content.markup)
    /\ soup' = Build(html_content.dom)
    /\ detached' = {}
    /\ by_tag' = {}
    /\ by_class' = {}
    /\ pc' = "remove_tags"
    /\ UNCHANGED <<html_content, main_content, content_parts, origin,
                   processed_elements, visits, stack, result>>
    /\ UNCHANGED <<self, calls, log>>

\* _remove_technical_elements, one pass of the tag loop: the set is iterated
\* in no fixed order, and a name that matches nothing changes nothing
RemoveByTag ==
    /\ pc = "remove_tags"
    /\ \E tag_name \in remove_elements :
          /\ tag_matches(tag_name) # {}
          /\ detached' = detached \cup tag_matches(tag_name)
          /\ by_tag' = by_tag \cup tag_matches(tag_name)
    /\ UNCHANGED <<pc, html_content, soup, by_class, main_content, content_parts,
                   origin, processed_elements, visits, stack, result>>
    /\ UNCHANGED <<self, calls, log>>

\* _remove_technical_elements, the comment loop, once the tag loop is over
RemoveComments ==
    /\ pc = "remove_tags"
    /\ \A tag_name \in remove_elements : tag_matches(tag_name) = {}
    /\ detached' = detached \cup comment_matches
    /\ pc' = "remove_classes"
    /\ UNCHANGED <<html_content, soup, by_tag, by_class, main_content, content_parts,
                   origin, processed_elements, visits, stack, result>>
    /\ UNCHANGED <<self, calls, log>>

\* _remove_technical_elements, one pass of the class loop
RemoveByClass ==
    /\ pc = "remove_classes"
    /\ \E class_name \in technical_classes :
          /\ class_matches(class_name) # {}
          /\ detached' = detached \cup class_matches(class_name)
          /\ by_class' = by_class \cup class_matches(class_name)
    /\ UNCHANGED <<pc, html_content, soup, by_tag, main_content, content_parts,
                   origin, processed_elements, visits, stack, result>>
    /\ UNCHANGED <<self, calls, log>>

\* a root selection that prefers the first article to the first main
select_root_article_first ==
    LET body == IF find(1, "body") # 0 THEN find(1, "body") ELSE 1
    IN  IF find(body, "article") # 0 THEN find(body, "article")
        ELSE IF find(body, "main") # 0 THEN find(body, "main")
        ELSE body

\* the root _extract_structured_content hands to the traversal
select_root ==
    LET body == IF find(1, "body") # 0 THEN find(1, "body") ELSE 1
    IN  IF find(body, "main") # 0 THEN find(body, "main")
        ELSE IF find(body, "article") # 0 THEN find(body, "article")
        ELSE body

\* a traversal that starts with the set of processed elements it finds
ExtractStart_shared_set ==
    /\ pc = "remove_classes"
    /\ \A class_name \in technical_classes : class_matches(class_name) = {}
    /\ main_content' = select_root
    /\ content_parts' = <<>>
    /\ origin' = <<>>
    /\ stack' = <<Frame(select_root)>>
    /\ visits' = <<>>
    /\ pc' = "walk"
    /\ UNCHANGED <<html_content, soup, detached, by_tag, by_class, result,
                   processed_elements>>
    /\ UNCHANGED <<self, calls, log>>

\* _extract_structured_content up to the first call of the traversal
ExtractStart ==
    /\ pc = "remove_classes"
    /\ \A class_name \in technical_classes : class_matches(class_name) = {}
    /\ main_content' = select_root
    /\ content_parts' = <<>>
    /\ origin' = <<>>
    /\ processed_elements' = {}
    /\ stack' = <<Frame(select_root)>>
    /\ visits' = <<>>
    /\ pc' = "walk"
    /\ UNCHANGED <<html_content, soup, detached, by_tag, by_class, result>>
    /\ UNCHANGED <<self, calls, log>>

\* _extract_content_recursive, from its entry to the first child (or to the
\* return, for a skipped or a structural element)
Visit ==
    /\ pc = "walk"
    /\ stack # <<>>
    /\ Top.phase = "call"
    /\ LET element == Top.element
       IN  IF ~IsTag(element) \/ element \in processed_elements
           THEN /\ stack' = Pop
                /\ UNCHANGED <<content_parts, origin, processed_elements, visits>>
           ELSE IF _is_technical_element(element)
           THEN /\ stack' = Pop
                /\ UNCHANGED <<content_parts, origin, processed_elements, visits>>
           ELSE /\ processed_elements' = processed_elements \cup {element}
                /\ visits' = Append(visits, element)
                /\ IF lower(soup[element].name) \in structural_tags
                   THEN /\ stack' = Pop
                        /\ IF format_block(element) # ""
                           THEN /\ content_parts' = Append(content_parts, format_block(element))
                                /\ origin' = Append(origin,
                                      [element |-> element, strings |-> format_strings(element)])
                           ELSE UNCHANGED <<content_parts, origin>>
                   ELSE /\ stack' = [stack EXCEPT ![Len(stack)].phase = "scan"]
                        /\ UNCHANGED <<content_parts, origin>>
    /\ UNCHANGED <<pc, html_content, soup, detached, by_tag, by_class, main_content, result>>
    /\ UNCHANGED <<self, calls, log>>

\* one turn of the loop over element.children
scan_child(frame, child) ==
    IF ~IsTag(child)
    THEN \* a NavigableString (a Comment is one)
         IF strip(soup[child].text) # ""
         THEN [frame EXCEPT !.i = @ + 1,
                            !.direct_text = @ \o strip(soup[child].text) \o " ",
                            !.direct_nodes = Append(@, child)]
         ELSE [frame EXCEPT !.i = @ + 1]
    ELSE IF lower(soup[child].name) \in block_child_tags
    THEN [frame EXCEPT !.i = @ + 1, !.has_block_children = TRUE]
    ELSE [frame EXCEPT !.i = @ + 1]

ScanChild ==
    /\ pc = "walk"
    /\ stack # <<>>
    /\ Top.phase = "scan"
    /\ Top.i <= Len(children(Top.element))
    /\ LET child == children(Top.element)[Top.i]
           scanned == [stack EXCEPT ![Len(stack)] = scan_child(Top, child)]
       IN  stack' = IF IsTag(child) /\ lower(soup[child].name) \in block_child_tags
                    THEN Append(scanned, Frame(child))
                    ELSE scanned
    /\ UNCHANGED <<pc, html_content, soup, detached, by_tag, by_class, main_content,
                   content_parts, origin, processed_elements, visits, result>>
    /\ UNCHANGED <<self, calls, log>>

\* a container that appends its text whether or not it has block children
container_block_always(frame) ==
    LET direct == strip(frame.direct_text)
        text_content == get_text_strip(frame.element)
    IN  IF direct # "" /\ Len(direct) >= MinTextLen
        THEN <<[text |-> direct, strings |-> frame.direct_nodes]>>
        ELSE IF text_content # "" /\ Len(text_content) >= MinTextLen
        THEN <<[text |-> text_content, strings |-> stripped_nodes(frame.element)]>>
        ELSE <<>>

\* what a container appends after the loop: <<>> or one block with its strings
container_block(frame) ==
    LET direct == strip(frame.direct_text)
        text_content == get_text_strip(frame.element)
    IN  IF direct # "" /\ Len(direct) >= MinTextLen /\ ~frame.has_block_children
        THEN <<[text |-> direct, strings |-> frame.direct_nodes]>>
        ELSE IF ~frame.has_block_children
        THEN IF text_content # "" /\ Len(text_content) >= MinTextLen
             THEN <<[text |-> text_content, strings |-> stripped_nodes(frame.element)]>>
             ELSE <<>>
        ELSE <<>>

\* _extract_content_recursive, after the loop over the children
FinishContainer ==
    /\ pc = "walk"
    /\ stack # <<>>
    /\ Top.phase = "scan"
    /\ Top.i > Len(children(Top.element))
    /\ LET block == container_block(Top)
       IN  IF block # <<>>
           THEN /\ content_parts' = Append(content_parts, block[1].text)
                /\ origin' = Append(origin,
                      [element |-> Top.element, strings |-> block[1].strings])
           ELSE UNCHANGED <<content_parts, origin>>
    /\ stack' = Pop
    /\ UNCHANGED <<pc, html_content, soup, detached, by_tag, by_class, main_content,
                   processed_elements, visits, result>>
    /\ UNCHANGED <<self, calls, log>>

\* '\n\n'.join(content_parts)
structured_content == join("\n\n", content_parts)

\* parse returns structured_content
ParseReturn ==
    /\ pc = "walk"
    /\ stack = <<>>
    /\ strip(structured_content) # ""
    /\ result' = Returned(structured_content)
    /\ pc' = "done"
    /\ UNCHANGED <<html_content, soup, detached, by_tag, by_class, main_content,
                   content_parts, origin, processed_elements, visits, stack>>
    /\ UNCHANGED <<self, calls, log>>

\* parse raises EmptyContentError("No meaningful content found after parsing")
\* inside the try block, under `except Exception`
ParseRaiseNoContent ==
    /\ pc = "walk"
    /\ stack = <<>>
    /\ strip(structured_content) = ""
    /\ result' = except_clause("EmptyContentError")
    /\ pc' = "done"
    /\ UNCHANGED <<html_content, soup, detached, by_tag, by_class, main_content,
                   content_parts, origin, processed_elements, visits, stack>>
    /\ UNCHANGED <<self, calls, log>>

Next ==
    \/ ParseRaiseEmptyInput
    \/ BuildSoup
    \/ RemoveByTag
    \/ RemoveComments
    \/ RemoveByClass
    \/ ExtractStart
    \/ Visit
    \/ ScanChild
    \/ FinishContainer
    \/ ParseReturn
    \/ ParseRaiseNoContent

----------------------------------------------------------------------------
(* The inputs of parse that are explored *)

TLong == "Tax reform plan"

TShort == "Note:"

TOutside == "Outside the main part"

\* a tag with the given text as its only child (no child for "")
Leaf(name, class, t) == Tag(name, class, IF t = "" THEN <<>> ELSE Text(t))

P(t) == Leaf("p", <<>>, t)

Td(t) == Leaf("td", <<>>, t)

Th(t) == Leaf("th", <<>>, t)

Li(t) == Leaf("li", <<>>, t)

Tr(cells) == Tag("tr", <<>>, cells)

\* a table the classifier calls technical and the class loop does not match
LayoutTable == Tag("table", <<"layout">>, Tr(Td("Layout cell text")))

\* the children a container is given
Kids ==
    {P(TLong), Text(TLong), Text(TShort), Comment(TLong), Leaf("span", <<>>, TLong),
     Tag("div", <<"ad">>, P(TLong)), LayoutTable}

RECURSIVE KidSeqs(_)
\* the concatenations of at most n children
KidSeqs(n) ==
    IF n = 0 THEN {<<>>}
    ELSE KidSeqs(n - 1) \cup {k \o l : k \in KidSeqs(n - 1), l \in Kids}

Wrappers == {"none", "nest", "main", "article", "span"}

Wrap(w, kids) ==
    CASE w = "none" -> kids
      [] w = "nest" -> Tag("div", <<>>, Tag("div", <<>>, kids))
      [] OTHER      -> Tag(w, <<>>, kids)

\* a container with its children, alone in the body or beside a paragraph
\* the paragraph put before or after a wrapper, or none
Siblings(w) ==
    CASE w \in {"none", "span"}    -> {<<<<>>, <<>>>>}
      [] w \in {"nest", "article"} -> {<<<<>>, <<>>>>, <<P(TOutside), <<>>>>}
      [] OTHER -> {<<<<>>, <<>>>>, <<P(TOutside), <<>>>>, <<<<>>, P(TOutside)>>}

TraversalDocs ==
    UNION {{Page(ab[1] \o Wrap(w, kids) \o ab[2]) :
                kids \in KidSeqs(MaxKids), ab \in Siblings(w)} : w \in Wrappers}

ClassChoices ==
    {<<>>, <<"ad">>, <<"heading">>, <<"navbar">>, <<"lead", "footer">>,
     <<"loading", "intro">>, <<"content">>, <<"Menu">>}

\* elements with class attributes, nested and beside a paragraph
ClassDocs ==
    {Page(Tag(t, c1, Tag("div", c2, P(TLong)) \o Text(TLong)) \o P(TOutside)) :
        t \in {"div", "span", "nav"}, c1 \in ClassChoices, c2 \in ClassChoices}

\* documents without usable content
EmptyDocs ==
    {Page(x) : x \in {<<>>, Text(TShort), Text(" \n"), P(""), P(" "),
                      Leaf("h1", <<>>, ""), Leaf("h3", <<>>, " "),
                      Leaf("blockquote", <<>>, ""), Leaf("blockquote", <<>>, " \n "),
                      Leaf("script", <<>>, TLong), Leaf("style", <<>>, TLong) \o P(TLong),
                      Tag("ul", <<>>, Li("")), Tag("table", <<>>, Tr(Td(""))),
                      Tag("div", <<>>, Leaf("h2", <<>>, "")),
                      Tag("div", <<>>, P(""))}}

\* the children a list is given: items with text, without, with a nested
\* list, with nothing but a nested list, and a child that is no li
ListKids ==
    {Li("Jobs"), Li(""), Li(" "),
     Tag("li", <<>>, Text("Tax") \o Tag("ul", <<>>, Li("VAT"))),
     Tag("li", <<>>, Tag("ol", <<>>, Li("Aid"))),
     P("stray")}

RECURSIVE ListKidSeqs(_)
ListKidSeqs(n) ==
    IF n = 0 THEN {<<>>}
    ELSE ListKidSeqs(n - 1) \cup {k \o l : k \in ListKidSeqs(n - 1), l \in ListKids}

ListDocs ==
    {Page(Tag(l, <<>>, kids)) : l \in list_tags, kids \in ListKidSeqs(MaxItems)}

\* the rows a table is given
RowChoices ==
    {Tr(Th("Region") \o Th("Support %")),
     Tr(Th("") \o Th("")),
     Tr(Td("Urban") \o Td("65")),
     Tr(Td("Rural")),
     Tr(<<>>),
     Tr(Td("") \o Td("41") \o Td("extra")),
     Tag("thead", <<>>, Tr(Td("Year") \o Td("")))}

RECURSIVE RowSeqs(_)
RowSeqs(n) ==
    IF n = 0 THEN {<<>>}
    ELSE RowSeqs(n - 1) \cup {k \o l : k \in RowSeqs(n - 1), l \in RowChoices}

\* class, title attribute and caption of the tables
TableVariants ==
    {<<<<>>, "", <<>>>>,
     <<<<"data-table">>, "", <<>>>>,
     <<<<>>, "Turnout", <<>>>>,
     <<<<>>, "Turnout", Leaf("caption", <<>>, " Polls ")>>}

TableDocs ==
    {Page(TagT("table", v[1], v[2], v[3] \o rows)) :
        v \in TableVariants, rows \in RowSeqs(MaxRows)}

TableClassChoices ==
    {<<>>, <<"data">>, <<"stats", "grid">>, <<"layout">>, <<"database", "grid">>,
     <<"gridlock">>, <<"Results">>, <<"wide", "controls">>, <<"nav-menu">>}

TableTextChoices ==
    {"1 2 3 4 5", "1 2 3 4 5 6", "1.5% 2,0$ 3. 4 5", "Home Contact",
     "budget home", "plain words", "About 12.5.3", ""}

\* one-cell tables for the classifier
ClassifierDocs ==
    {Page(Tag("table", c, Tr(Td(t)))) : c \in TableClassChoices, t \in TableTextChoices}

\* technical tables inside elements that are formatted or not descended into
NestedTableDocs ==
    {Page(x) : x \in {Tag("blockquote", <<>>, LayoutTable),
                      Tag("ul", <<>>, Tag("li", <<>>, LayoutTable)),
                      Tag("table", <<>>, Tr(Tag("td", <<>>, LayoutTable))),
                      Tag("div", <<>>, Tag("span", <<>>, LayoutTable)),
                      Tag("div", <<>>, Tag("div", <<>>, LayoutTable)),
                      P(TLong) \o Tag("figure", <<>>, LayoutTable)}}

\* a heading and a paragraph inside each container tag, the container in
\* the body or inside a div
ContainerDocs ==
    {Page(Tag(c, <<>>, Leaf("h2", <<>>, "Budget debate") \o P(TLong))) : c \in block_elements}
    \cup {Page(Tag("div", <<>>, Tag(c, <<>>, Leaf("h2", <<>>, "Budget debate")) \o P(TLong))) :
             c \in block_elements}

TMain == "Inside the main element"

TArticle == "Inside an article"

\* what the body holds for the root selection: main and article elements,
\* one inside the other, inside a div, or with a technical class
RootKids ==
    {Tag("main", <<>>, P(TMain)),
     Tag("article", <<>>, P(TArticle)),
     Tag("div", <<>>, Tag("main", <<>>, P(TMain))),
     Tag("article", <<>>, P(TArticle) \o Tag("main", <<>>, P(TMain))),
     Tag("main", <<"main-navigation">>, P(TMain)),
     P(TOutside)}

\* two children of the body; a tree whose body has a technical class, and a
\* tree that has no body
RootDocs ==
    {Page(a \o b) : a, b \in RootKids}
    \cup {Tag("[document]", <<>>, Tag("html", <<>>, Tag("body", <<"page-header">>, P(TLong)))),
          Tag("[document]", <<>>, Tag("html", <<>>, Tag("head", <<>>, Leaf("title", <<>>, TLong))))}

Documents ==
    TraversalDocs \cup ClassDocs \cup EmptyDocs \cup ListDocs \cup TableDocs
    \cup ClassifierDocs \cup NestedTableDocs \cup ContainerDocs \cup RootDocs

BlankMarkup == {"", " ", " \n\t"}

\* the markup of a document stands for any string lxml parses to its tree
Inputs ==
    {[markup |-> m, dom |-> <<>>] : m \in BlankMarkup}
    \cup {[markup |-> "<html>", dom |-> d] : d \in Documents}

Init ==
    /\ pc = "start"
    /\ html_content \in Inputs
    /\ soup = <<>>
    /\ detached = {}
    /\ by_tag = {}
    /\ by_class = {}
    /\ main_content = 0
    /\ content_parts = <<>>
    /\ origin = <<>>
    /\ processed_elements = {}
    /\ visits = <<>>
    /\ stack = <<>>
    /\ result = [outcome |-> "none", value |-> "", cause |-> "none"]
    /\ self = _setup_removal_rules
    /\ calls = 1
    /\ log = <<>>

Spec == Init /\ [][Next]_vars

----------------------------------------------------------------------------
(* Several calls of parse on one HTMLParser *)

\* the inputs of the calls after the first, besides those already parsed
FollowUps ==
    {[markup |-> "", dom |-> <<>>],
     [markup |-> "<html>", dom |-> Page(Tag("main", <<>>, P(TLong)) \o P(TOutside))],
     [markup |-> "<html>",
      dom |-> Page(Tag("div", <<"lead", "footer">>, P(TOutside)) \o Leaf("nav", <<>>, TLong)
                   \o Tag("div", <<>>, Text(TLong)))]}

\* documents whose pre-pass has several tag names and class names to order,
\* with matches inside one another
OrderDocs ==
    {Page(Tag("div", c1, Tag("div", c2, P(TLong)) \o Leaf("script", <<>>, TShort))
          \o Tag("nav", <<>>, Leaf("form", <<>>, TLong)) \o Comment(TLong) \o P(TOutside)) :
        c1 \in {<<"heading">>, <<"content">>}, c2 \in {<<"navbar">>, <<"lead", "footer">>}}

\* the inputs of the first call
CallInputs ==
    {[markup |-> m, dom |-> <<>>] : m \in BlankMarkup}
    \cup {[markup |-> "<html>", dom |-> d] :
             d \in ClassDocs \cup EmptyDocs \cup NestedTableDocs \cup OrderDocs}

\* the caller calls parse again on the same HTMLParser, as
\* demonstrate_error_handling does: the frame of the call that ended is
\* garbage, and nothing but the attributes of the parser is handed on
ParseAgain ==
    /\ pc = "done"
    /\ calls < MaxCalls
    /\ \E next_input \in {html_content} \cup {log[i].html_content : i \in 1..Len(log)}
                          \cup FollowUps :
          html_content' = next_input
    /\ log' = Append(log, [html_content |-> html_content, result |-> result])
    /\ calls' = calls + 1
    /\ pc' = "start"
    /\ UNCHANGED <<soup, detached, by_tag, by_class, main_content, content_parts,
                   origin, processed_elements, visits, stack, result, self>>

InitCalls ==
    /\ pc = "start"
    /\ html_content \in CallInputs
    /\ soup = <<>>
    /\ detached = {}
    /\ by_tag = {}
    /\ by_class = {}
    /\ main_content = 0
    /\ content_parts = <<>>
    /\ origin = <<>>
    /\ processed_elements = {}
    /\ visits = <<>>
    /\ stack = <<>>
    /\ result = [outcome |-> "none", value |-> "", cause |-> "none"]
    /\ self = _setup_removal_rules
    /\ calls = 1
    /\ log = <<>>

NextCalls ==
    \/ Next
    \/ ParseAgain

SpecCalls == InitCalls /\ [][NextCalls]_vars

----------------------------------------------------------------------------
(* Vocabulary of the properties *)

Finished == pc = "done" /\ soup # <<>>

PrePassOver == pc \in {"walk", "done"} /\ soup # <<>>

Elements == {n \in NodeIds : IsTag(n)}

\* one of the element's class tokens is equal to a technical class
HasTechnicalToken(e) == \E i \in 1..Len(soup[e].class) : soup[e].class[i] \in technical_classes

\* the node is, or lies below, one of the nodes in S
WithinAny(S, n) == \E x \in S : x = n \/ Below(x, n)

\* the roots of the subtrees the Technical Filter is to exclude
ExcludedRoots ==
    {n \in NodeIds : \/ soup[n].kind = "comment"
                     \/ IsTag(n) /\ soup[n].name \in remove_elements
                     \/ IsTag(n) /\ HasTechnicalToken(n)}

Excluded(n) == WithinAny(ExcludedRoots, n)

BlockIndices == 1..Len(origin)

----------------------------------------------------------------------------
(* C1 *)

\* C1: the class loop of the pre-pass detaches an element exactly when one of
\* its class tokens is equal to a technical class, as _is_technical_element
\* tests it: no element is detached for a token that only contains one, and
\* none with such a token stays in the tree.
C1_ExactTokenRemoval ==
    /\ \A e \in by_class : HasTechnicalToken(e) /\ _is_technical_element(e)
    /\ PrePassOver =>
          \A e \in Elements : Attached(e) => ~HasTechnicalToken(e)

----------------------------------------------------------------------------
(* C2 *)

\* C2: (a) a blank input makes parse raise EmptyContentError before any DOM
\* is built; (b) a non-blank input whose joined result is blank makes parse
\* raise EmptyContentError too, not an HTMLParsingError that wraps it.
C2_EmptyContentRaisedDirectly ==
    pc = "done" =>
        /\ is_blank(html_content.markup) =>
              result = Raised("EmptyContentError", "none") /\ soup = <<>>
        /\ (~is_blank(html_content.markup) /\ strip(structured_content) = "") =>
              result.outcome = "raised" /\ result.value = "EmptyContentError"

----------------------------------------------------------------------------
(* C3 *)

\* C3: no block is appended for an excluded node, no block includes the text
\* of one, and the traversal never visits or holds one: excluded are the
\* Comments, the elements with a removed tag, the elements with a technical
\* class token, and everything below them.
C3_ExcludedNeverEmitted ==
    soup # <<>> =>
        /\ \A k \in BlockIndices :
              /\ ~Excluded(origin[k].element)
              /\ \A i \in 1..Len(origin[k].strings) : ~Excluded(origin[k].strings[i])
        /\ \A i \in 1..Len(visits) : ~Excluded(visits[i])
        /\ \A i \in 1..Len(stack) : ~Excluded(stack[i].element)

\* a paragraph long enough to be a block lies below an element with a
\* technical class token, and parse returned blocks without it
C3_Witness ==
    /\ Finished
    /\ result.outcome = "returned"
    /\ \E n \in NodeIds :
          /\ soup[n].kind = "text"
          /\ Len(strip(soup[n].text)) >= MinTextLen
          /\ soup[soup[n].parent].name = "p"
          /\ \E e \in Elements : HasTechnicalToken(e) /\ Below(e, n)

----------------------------------------------------------------------------
(* C4 *)

NoRepeat(seq) == \A i, j \in 1..Len(seq) : i # j => seq[i] # seq[j]

StringSet(k) == {origin[k].strings[i] : i \in 1..Len(origin[k].strings)}

IsStructural(e) == lower(soup[e].name) \in structural_tags

\* C4: during the traversal every block was appended for one element, no
\* element is marked processed twice, no element has two blocks, no text
\* node is included in two blocks, a container with a visited child has no
\* block of its own, and nothing below a formatted element is visited.
C4_NoDuplicateEmission ==
    soup # <<>> =>
        /\ Len(origin) = Len(content_parts)
        /\ NoRepeat(visits)
        /\ \A k \in BlockIndices : origin[k].element \in Elements
        /\ \A j, k \in BlockIndices :
              j # k => /\ origin[j].element # origin[k].element
                       /\ StringSet(j) \cap StringSet(k) = {}
        /\ \A k \in BlockIndices : \A i \in 1..Len(visits) :
              soup[visits[i]].parent # origin[k].element
        /\ \A i, j \in 1..Len(visits) :
              Below(visits[j], visits[i]) => ~IsStructural(visits[j])

\* a container whose children were visited stayed without a block while a
\* container below it and a formatted element got theirs
C4_Witness ==
    /\ Finished
    /\ \E j, k \in BlockIndices :
          /\ j # k
          /\ ~IsStructural(origin[j].element)
          /\ IsStructural(origin[k].element)
          /\ origin[j].strings # <<>>
          /\ origin[k].strings # <<>>
    /\ \E i, j \in 1..Len(visits) :
          /\ soup[visits[i]].parent = visits[j]
          /\ visits[j] # main_content

----------------------------------------------------------------------------
(* C5 *)

IsPrefix(a, b) == Len(a) <= Len(b) /\ SubSeq(b, 1, Len(a)) = a

\* C5: the blocks stand in the pre-order of the elements they were appended
\* for (a node's index is its pre-order position), and content_parts is only
\* ever appended to.
C5_DocumentOrder ==
    /\ [](\A j, k \in BlockIndices : j < k => origin[j].element < origin[k].element)
    /\ [][IsPrefix(content_parts, content_parts') /\ IsPrefix(origin, origin')]_vars

\* a container appended its own text before a later element got its block
C5_Witness ==
    /\ Finished
    /\ \E j, k \in BlockIndices :
          /\ j < k
          /\ ~IsStructural(origin[j].element)
          /\ origin[j].element # main_content
          /\ ~Below(origin[j].element, origin[k].element)

----------------------------------------------------------------------------
(* C6 *)

\* C6: a heading, paragraph, list, table or blockquote without text gets no
\* block, and a document whose text nodes are all blank makes parse fail
\* with the empty-content error instead of returning.
C6_EmptyBlocksEmitNothing ==
    soup # <<>> =>
        /\ \A k \in BlockIndices :
              IsStructural(origin[k].element) => get_text_strip(origin[k].element) # ""
        /\ (pc = "done" /\ \A n \in NodeIds : soup[n].kind = "text" => strip(soup[n].text) = "")
              => /\ result.outcome = "raised"
                 /\ "EmptyContentError" \in {result.value, result.cause}

----------------------------------------------------------------------------
(* C7 *)

Tables == {n \in Elements : soup[n].name = "table"}

BlocksOf(e) == {k \in BlockIndices : origin[k].element = e}

\* one of the table's class tokens is one of the keywords
HasKeywordToken(t, keywords) == \E i \in 1..Len(soup[t].class) : soup[t].class[i] \in keywords

\* one of the keywords occurs in the lowercased class attribute
HasKeywordInClass(t, keywords) ==
    LET class_attribute == lower(join(" ", soup[t].class))
    IN  \E kw \in keywords : contains(kw, class_attribute)

TextHasKeyword(t, keywords) ==
    LET text == lower(get_text(t))
    IN  \E kw \in keywords : contains(kw, text)

ManyNumbers(t) == count_numbers(lower(get_text(t)), 1) > 5

\* the five rules in order, for a given reading of the two class tests
FiveRules(t, content_class, technical_class) ==
    LET r == _classify_table(t)
        by_text == ManyNumbers(t) \/ TextHasKeyword(t, content_table_indicators)
        by_nav  == TextHasKeyword(t, {"home", "about", "contact", "menu", "navigation"})
    IN  /\ r \in {"content", "technical"}
        /\ content_class => r = "content"
        /\ (~content_class /\ technical_class) => r = "technical"
        /\ (~content_class /\ ~technical_class /\ by_text) => r = "content"
        /\ (~content_class /\ ~technical_class /\ ~by_text /\ by_nav) => r = "technical"
        /\ (~content_class /\ ~technical_class /\ ~by_text /\ ~by_nav) => r = "content"

\* C7 as claimed: the classifier follows the five rules in order, rules 1
\* and 2 testing whether a class token is a keyword.
C7_TokenRules ==
    soup # <<>> =>
        \A t \in Tables :
            t \in processed_elements =>
            FiveRules(t, HasKeywordToken(t, content_table_indicators),
                         HasKeywordToken(t, technical_table_indicators))

\* C7 as amended: the classifier follows the five rules in order, rules 1
\* and 2 testing whether a keyword occurs anywhere in the lowercased class
\* attribute; a visited table classified technical gets no block.
C7_SubstringRules ==
    soup # <<>> =>
        \A t \in Tables :
            /\ FiveRules(t, HasKeywordInClass(t, content_table_indicators),
                            HasKeywordInClass(t, technical_table_indicators))
            /\ (t \in processed_elements /\ _classify_table(t) = "technical")
                  => BlocksOf(t) = {}

\* a visited table whose class only contains a content keyword inside a
\* token, beside a technical keyword token, was classified content and
\* got its block
C7_Witness ==
    /\ Finished
    /\ \E t \in Tables :
          /\ t \in processed_elements
          /\ ~HasKeywordToken(t, content_table_indicators)
          /\ HasKeywordToken(t, technical_table_indicators)
          /\ HasKeywordInClass(t, content_table_indicators)
          /\ BlocksOf(t) # {}

----------------------------------------------------------------------------
(* C8 *)

\* C8: a table inside the traversal root that the classifier calls technical
\* gets no block, and no block includes the text of its cells.
C8_TechnicalTableSkipped ==
    PrePassOver =>
        \A t \in Tables :
            (/\ Attached(t)
             /\ (t = main_content \/ Below(main_content, t))
             /\ _classify_table(t) = "technical")
            => \A k \in BlockIndices :
                  /\ origin[k].element # t
                  /\ \A i \in 1..Len(origin[k].strings) : ~Below(t, origin[k].strings[i])

----------------------------------------------------------------------------
(* C9 *)

Lists == {n \in Elements : soup[n].name \in {"ul", "ol"}}

\* the direct li children of a list
DirectItems(l) == {n \in Elements : soup[n].parent = l /\ soup[n].name = "li" /\ Attached(n)}

\* the 1-based index of an item among the direct li children
ItemRank(l, li) == Cardinality({d \in DirectItems(l) : d <= li})

ShownItems(l) == SortedSeq({li \in DirectItems(l) : get_text_strip(li) # ""})

ExpectedItemLine(l, li) ==
    IF soup[l].name = "ol"
    THEN str_int(ItemRank(l, li)) \o ". " \o get_text_strip(li)
    ELSE "* " \o get_text_strip(li)

ExpectedListBlock(l) ==
    (IF soup[l].name = "ol" THEN "List (numbered):" ELSE "List (bulleted):")
    \o "\n"
    \o LET shown == ShownItems(l)
       IN  join("\n", [k \in 1..Len(shown) |-> ExpectedItemLine(l, shown[k])])

\* C9: a visited list has one block, the label and one line for each direct
\* li child with text, in order, a numbered line carrying the item's index
\* among all direct li children; a list without such an item has no block.
C9_ListBlock ==
    soup # <<>> =>
        \A l \in Lists :
            l \in processed_elements =>
                IF ShownItems(l) = <<>>
                THEN BlocksOf(l) = {}
                ELSE /\ Cardinality(BlocksOf(l)) = 1
                     /\ \A k \in BlocksOf(l) : content_parts[k] = ExpectedListBlock(l)

\* a numbered list got its block although an item before a shown one has no
\* text and a shown item holds a nested list
C9_Witness ==
    /\ Finished
    /\ \E l \in Lists :
          /\ soup[l].name = "ol"
          /\ BlocksOf(l) # {}
          /\ \E li \in DirectItems(l), d \in DirectItems(l) :
                /\ d < li
                /\ get_text_strip(d) = ""
                /\ get_text_strip(li) # ""
          /\ \E li \in DirectItems(l), n \in Elements : Below(li, n) /\ soup[n].name = "li"

----------------------------------------------------------------------------
(* C10 *)

\* the tr elements of a table and the cells of a row, in document order
RowsOf(t) == SortedSeq({n \in Elements : Below(t, n) /\ Attached(n) /\ soup[n].name = "tr"})

CellsOf(r) ==
    SortedSeq({n \in Elements : Below(r, n) /\ Attached(n) /\ soup[n].name \in {"td", "th"}})

InsideThead(r) == \E a \in Elements : soup[a].name = "thead" /\ Below(a, r)

\* the first tr is the header row
FirstIsHeader(t) ==
    /\ RowsOf(t) # <<>>
    /\ \/ \E n \in Elements : Below(RowsOf(t)[1], n) /\ soup[n].name = "th"
       \/ InsideThead(RowsOf(t)[1])

DataRowsOf(t) == IF FirstIsHeader(t) THEN Tail(RowsOf(t)) ELSE RowsOf(t)

\* the texts of the header row's cells that have text
HeaderNames(t) ==
    IF FirstIsHeader(t)
    THEN LET cells == SelectSeq(CellsOf(RowsOf(t)[1]), LAMBDA c : get_text_strip(c) # "")
         IN  [i \in 1..Len(cells) |-> get_text_strip(cells[i])]
    ELSE <<>>

\* Column1, Column2, ... for the cells of the first data row
GenericNames(t) ==
    IF DataRowsOf(t) = <<>> THEN <<>>
    ELSE [i \in 1..Len(CellsOf(DataRowsOf(t)[1])) |-> "Column" \o str_int(i)]

Smaller(a, b) == IF a < b THEN a ELSE b

ExpectedRowLine(r, names) ==
    LET cells == CellsOf(r)
    IN  join(" | ", [i \in 1..Smaller(Len(cells), Len(names)) |->
                        names[i] \o ": " \o get_text_strip(cells[i])])

ExpectedTitle(t) ==
    LET captions == SortedSeq({n \in Elements : Below(t, n) /\ soup[n].name = "caption"})
    IN  IF captions # <<>> THEN get_text_strip(captions[1])
        ELSE IF soup[t].title # "" THEN soup[t].title
        ELSE "Data"

\* the block of a table with the given column names and line-giving rows:
\* <<>> when there is none
ExpectedTableBlock(t, names, rows) ==
    IF names = <<>> \/ rows = <<>> THEN <<>>
    ELSE <<"Table: " \o ExpectedTitle(t) \o "\n"
           \o join("\n", [k \in 1..Len(rows) |-> ExpectedRowLine(rows[k], names)])>>

\* a visited content table has exactly the expected block, or none
TableBlockIs(t, expected) ==
    IF expected = <<>> THEN BlocksOf(t) = {}
    ELSE /\ Cardinality(BlocksOf(t)) = 1
         /\ \A k \in BlocksOf(t) : content_parts[k] = expected[1]

ContentTablesVisited ==
    {t \in Tables : t \in processed_elements /\ _classify_table(t) = "content"}

\* C10 as claimed: the column names are the header row's cells with text, and
\* generic names only when there is no header row; every data row with a
\* cell gives one line of pairs for its first min(cells, names) cells, an
\* empty cell giving an empty value; the block is the title line and those
\* lines, and there is none without a column name or without a line.
C10_TableAsClaimed ==
    soup # <<>> =>
        \A t \in ContentTablesVisited :
            TableBlockIs(t,
                ExpectedTableBlock(t,
                    IF FirstIsHeader(t) THEN HeaderNames(t) ELSE GenericNames(t),
                    SelectSeq(DataRowsOf(t), LAMBDA r : CellsOf(r) # <<>>)))

\* C10 as amended: as claimed, but generic names are generated whenever the
\* header row gave no name (there is none, or all its cells are empty) and
\* there is a data row.
C10_TableBlock ==
    soup # <<>> =>
        \A t \in ContentTablesVisited :
            TableBlockIs(t,
                ExpectedTableBlock(t,
                    IF HeaderNames(t) # <<>> THEN HeaderNames(t) ELSE GenericNames(t),
                    SelectSeq(DataRowsOf(t), LAMBDA r : CellsOf(r) # <<>>)))

\* a table whose header row has th cells without text got a block with
\* generic column names, an empty cell value in it
C10_Witness ==
    /\ Finished
    /\ \E t \in ContentTablesVisited :
          /\ FirstIsHeader(t)
          /\ HeaderNames(t) = <<>>
          /\ BlocksOf(t) # {}
          /\ \E r \in Elements, c \in Elements :
                /\ Below(t, r) /\ soup[r].name = "tr" /\ r # RowsOf(t)[1]
                /\ Below(r, c) /\ soup[c].name = "td" /\ get_text_strip(c) = ""

----------------------------------------------------------------------------
(* C11 *)

\* the nodes the pre-pass is to detach whatever the order of its loops: the
\* Comments, the elements a tag name of the tag loop finds and the elements
\* the filter of the class loop accepts for some class name
RemovalRoots ==
    {n \in NodeIds : \/ soup[n].kind = "comment"
                     \/ IsTag(n) /\ soup[n].name \in _setup_removal_rules.remove_elements
                     \/ IsTag(n) /\ \E class_name \in _setup_removal_rules.technical_classes :
                                        matches_class(n, class_name)}

\* the calls that ended: the earlier ones and, at its end, the current one
EndedCalls ==
    {log[i] : i \in 1..Len(log)}
    \cup (IF pc = "done" THEN {[html_content |-> html_content, result |-> result]} ELSE {})

\* C11: across any sequence of calls of parse on one HTMLParser, (a) the
\* attributes of the parser stay as _setup_removal_rules set them; (b) the
\* set of processed elements holds nothing but the elements the current call
\* visited; (c) when the pre-pass is over, the nodes left in the tree are
\* those outside every subtree to remove, whatever the order in which tag
\* names, class names and matches were handled; (d) two calls with the same
\* input end with the same outcome, whatever was parsed in between.
C11_StatelessCalls ==
    /\ self = _setup_removal_rules
    /\ calls = Len(log) + 1
    /\ pc = "walk" =>
          /\ processed_elements = {visits[i] : i \in 1..Len(visits)}
          /\ \A n \in NodeIds : Attached(n) <=> ~WithinAny(RemovalRoots, n)
    /\ \A a, b \in EndedCalls : a.html_content = b.html_content => a.result = b.result

\* a second call ended on the input of the first and returned its text; its
\* pre-pass decomposed elements of two tag names, and an element with a
\* technical class after one inside it
C11_Witness ==
    /\ pc = "done"
    /\ calls = 2
    /\ log[1].html_content = html_content
    /\ result.outcome = "returned"
    /\ log[1].result = result
    /\ \E e1, e2 \in by_tag : soup[e1].name # soup[e2].name
    /\ \E e1, e2 \in by_class : Below(e1, e2)

----------------------------------------------------------------------------
(* C12 *)

\* e lies below the traversal root, in the tree, and every element between
\* the root and e has a tag of the given set
ReachableThrough(tags, e) ==
    /\ main_content # 0
    /\ Below(main_content, e)
    /\ Attached(e)
    /\ \A a \in Elements :
          (Below(main_content, a) /\ Below(a, e)) => lower(soup[a].name) \in tags

\* the element was visited and its formatted text is a block of its own
HasOwnBlock(e) ==
    /\ \E i \in 1..Len(visits) : visits[i] = e
    /\ \E k \in BlockIndices :
          origin[k].element = e /\ content_parts[k] = format_block(e)

\* C12: when parse has returned or raised, every heading, list, table,
\* blockquote or paragraph with a non-empty formatted text that is reachable
\* from the traversal root through elements of the known container set
\* (div, section, article, main, header, aside, span, figure, figcaption,
\* details, summary) only was visited and has a block of its own.
C12_ContainerChainLabeled ==
    Finished =>
        \A e \in Elements :
            (/\ IsStructural(e)
             /\ ReachableThrough(block_elements, e)
             /\ format_block(e) # "") => HasOwnBlock(e)

----------------------------------------------------------------------------
(* C13 *)

\* the elements of the given tag name that are in the tree below e
InTreeBelow(e, name) ==
    {n \in Elements : Attached(n) /\ Below(e, n) /\ soup[n].name = name}

\* the body if the tree has one, else the whole tree
BodyOrTree == IF InTreeBelow(1, "body") # {} THEN MinOf(InTreeBelow(1, "body")) ELSE 1

\* the first main inside the body, else the first article, else the body
ExpectedRoot ==
    IF InTreeBelow(BodyOrTree, "main") # {} THEN MinOf(InTreeBelow(BodyOrTree, "main"))
    ELSE IF InTreeBelow(BodyOrTree, "article") # {}
    THEN MinOf(InTreeBelow(BodyOrTree, "article"))
    ELSE BodyOrTree

InsideRoot(n) == n = ExpectedRoot \/ Below(ExpectedRoot, n)

\* C13: once the pre-pass is over the traversal root is the first main
\* element inside the body, else the first article inside it, else the body
\* (the whole tree without a body); every element visited, every block and
\* every text node a block was made of lies inside that subtree, and the
\* text parse returns is the join of those blocks.
C13_RootSelection ==
    (pc = "walk" \/ Finished) =>
        /\ main_content = ExpectedRoot
        /\ \A i \in 1..Len(visits) : InsideRoot(visits[i])
        /\ \A i \in 1..Len(stack) : InsideRoot(stack[i].element)
        /\ \A k \in BlockIndices :
              /\ InsideRoot(origin[k].element)
              /\ \A i \in 1..Len(origin[k].strings) : InsideRoot(origin[k].strings[i])
        /\ (Finished /\ result.outcome = "returned") =>
              /\ Len(content_parts) = Len(origin)
              /\ result.value = join("\n\n", content_parts)

\* parse returned the blocks of a main element although an article with a
\* paragraph long enough for a block comes before it in the body
C13_Witness ==
    /\ Finished
    /\ result.outcome = "returned"
    /\ soup[main_content].name = "main"
    /\ \E a \in Elements :
          /\ soup[a].name = "article"
          /\ Attached(a)
          /\ a < main_content
          /\ ~Below(a, main_content)
          /\ \E t \in NodeIds :
                /\ Below(a, t)
                /\ soup[t].kind = "text"
                /\ Len(strip(soup[t].text)) >= MinTextLen

====
